---- MODULE Spec2Model ----
(***************************************************************************)
(* Model of packages/shared/scripts/judge_verification.py, the "Titan      *)
(* Judge Verification Tool": main() checks the service path, detects the   *)
(* toolchain from marker files, drives analyze_rust_project or             *)
(* analyze_node_project through their external commands, prints the        *)
(* report and exits with a status derived from it.                         *)
(*                                                                         *)
(* One behaviour of the model is a series of invocations of the tool on    *)
(* the same project with the same external-tool behaviour: every           *)
(* invocation starts from a fresh process state, the project directory    *)
(* and the tools are the environment and stay as they are; a later         *)
(* invocation may add the --deep flag.                                     *)
(***************************************************************************)
EXTENDS Integers, Naturals, Sequences, FiniteSets, TLC

VARIABLES
    path_exists,    \* os.path.exists(service_path)
    files,          \* the marker files present in the service directory
    pkg_data,       \* what open()/json.load() of package.json yields
    deep_mode,      \* args.deep
    tools,          \* external-tool behaviour: command -> process outcome
    run,            \* number of the current invocation of the tool
    pc,             \* position of main() / the analyzer in this invocation
    result,         \* the report dict being built, then main()'s result
    invocations,    \* commands handed to run_command, in order (the spy)
    fs_checks,      \* marker files probed with os.path.exists, in order
    pkg_reads,      \* number of times package.json was opened
    analyzers,      \* analyzers entered in this invocation, in order
    stdout_docs,    \* documents printed to standard output, in order
    exit_code,      \* process exit status, NoExit while running
    history,        \* what earlier invocations printed and how they exited
    waiting,        \* the command main() is blocked on in run_command
    running         \* the child processes that are alive

vars == <<path_exists, files, pkg_data, deep_mode, tools, run, pc, result,
          invocations, fs_checks, pkg_reads, analyzers, stdout_docs,
          exit_code, history, waiting, running>>

env == <<path_exists, files, pkg_data, deep_mode>>

-----------------------------------------------------------------------------
(* Bounds of the model *)

\* longest captured stream the tools produce (one more than the excerpt)
MaxOutLen == 501
\* wall-clock duration of the slowest step, in milliseconds
MaxDuration == 1
\* invocations of the tool in one behaviour
NumRuns == 2

-----------------------------------------------------------------------------
(* Program constants *)

\* the excerpt limit of lint_res.stdout[:500] and its siblings
MaxExcerpt == 500
\* exit status the shell (shell=True) reports for a command it cannot start
ShellNotFound == 127
\* a byte the text=True decoding of run_command cannot decode
BadByte == 255

NoExit == -1

NoCommand == "none"

Min(a, b) == IF a < b THEN a ELSE b

-----------------------------------------------------------------------------
(* Text: a captured stream is the sequence of its characters *)

Text(n) == [i \in 1..n |-> (i % 3) + 1]

NotFoundMsg == <<3, 1, 2, 2>>

Undecodable == <<1, BadByte, 2>>

\* s[:n] of Python: the first n characters, all of s when it is shorter
Slice(s, n) == SubSeq(s, 1, Min(n, Len(s)))

\* Excerpt keeping the end of the stream instead of its beginning
ExcerptLast(s) == SubSeq(s, Len(s) - Min(MaxExcerpt, Len(s)) + 1, Len(s))

\* res.stdout[:500], res.stderr[:500]
Excerpt(s) == Slice(s, MaxExcerpt)

-----------------------------------------------------------------------------
(* External commands *)

Commands == {"npm run lint", "npm run test:unit", "npm run test:property",
             "cargo check", "cargo test", "cargo bench",
             "./regression_suite.sh"}

\* What a command does when the shell is asked to run it: it cannot be
\* started, or it runs and exits with a code and two captured streams.
Outcomes ==
    { [started |-> TRUE, code |-> 0, out |-> Text(MaxExcerpt), err |-> Text(MaxOutLen)],
      [started |-> TRUE, code |-> 1, out |-> Text(MaxOutLen), err |-> Text(MaxExcerpt)],
      [started |-> TRUE, code |-> ShellNotFound, out |-> <<>>, err |-> NotFoundMsg],
      [started |-> FALSE, code |-> 0, out |-> <<>>, err |-> <<>>],
      [started |-> TRUE, code |-> 0, out |-> Undecodable, err |-> <<>>],
      [started |-> TRUE, code |-> 1, out |-> <<>>, err |-> Undecodable] }

\* int((time.time() - start_time) * 1000): the fastest and the slowest step
Durations == {0, MaxDuration}

Decodable(s) == \A i \in 1..Len(s) : s[i] # BadByte

\* shell=True: the shell always starts, and a command it cannot start is
\* the shell's own exit status 127 with a message on stderr
Shell(o) ==
    IF o.started
    THEN [returncode |-> o.code, stdout |-> o.out, stderr |-> o.err]
    ELSE [returncode |-> ShellNotFound, stdout |-> <<>>, stderr |-> NotFoundMsg]

\* subprocess.run(command, shell=True, cwd=cwd, capture_output=True, text=True):
\* text=True decodes both captured streams and raises when one of them
\* cannot be decoded; otherwise the CompletedProcess is returned.
run_command(o) ==
    LET sh == Shell(o)
    IN  [raised |-> ~(Decodable(sh.stdout) /\ Decodable(sh.stderr)),
         returncode |-> sh.returncode, stdout |-> sh.stdout, stderr |-> sh.stderr]

Behaviour(command) ==
    IF command \in DOMAIN tools THEN {tools[command]} ELSE Outcomes

-----------------------------------------------------------------------------
(* The project directory *)

MarkerFiles == {"Cargo.toml", "package.json", "regression_suite.sh"}

\* "x in scripts" of Python is decided by the members of scripts: the keys
\* of a dict, the items of a list, the substrings of a str.
Scripts ==
    { [kind |-> "absent", members |-> {}],
      [kind |-> "null", members |-> {}],
      [kind |-> "dict", members |-> {"lint", "test:unit"}],
      [kind |-> "dict", members |-> {"lint", "test:unit", "test:property"}],
      [kind |-> "str", members |-> {"test:property"}] }

\* What opening and parsing package.json yields.
Manifests ==
    { [open |-> "missing", json |-> "none", scripts |-> [kind |-> "absent", members |-> {}]],
      [open |-> "denied", json |-> "none", scripts |-> [kind |-> "absent", members |-> {}]],
      [open |-> "ok", json |-> "invalid", scripts |-> [kind |-> "absent", members |-> {}]],
      [open |-> "ok", json |-> "list", scripts |-> [kind |-> "absent", members |-> {}]] }
    \cup { [open |-> "ok", json |-> "dict", scripts |-> s] : s \in Scripts }

\* lines 60-66: has_prop_test stays False when open() or json.load() raise,
\* when pkg_data has no .get (not a dict), or when "in" raises (scripts is
\* null); otherwise it is "test:property" in pkg_data.get("scripts", {}).
HasPropTest(pkg) ==
    IF pkg.open # "ok" THEN FALSE
    ELSE IF pkg.json # "dict" THEN FALSE
    ELSE IF pkg.scripts.kind = "absent" THEN "test:property" \in {}
    ELSE IF pkg.scripts.kind = "null" THEN FALSE
    ELSE "test:property" \in pkg.scripts.members

\* Detect with the two markers probed in the other order
DetectNodeFirst(fs) ==
    IF "package.json" \in fs THEN "node"
    ELSE IF "Cargo.toml" \in fs THEN "rust"
    ELSE "unknown"

\* lines 169-177: the if / elif / else chain of main()
Detect(fs) ==
    IF "Cargo.toml" \in fs THEN "rust"
    ELSE IF "package.json" \in fs THEN "node"
    ELSE "unknown"

\* the os.path.exists probes the chain makes, in order (elif short-circuits)
DetectProbes(fs) ==
    IF "Cargo.toml" \in fs THEN <<"Cargo.toml">>
    ELSE <<"Cargo.toml", "package.json">>

-----------------------------------------------------------------------------
(* Reports *)

NoReport == [unset |-> TRUE]

\* an error document that also carries an empty list of steps
PathNotFoundReportWithSteps ==
    [error |-> "Path not found", status |-> "FAIL", steps |-> <<>>]

PathNotFoundReport == [error |-> "Path not found", status |-> "FAIL"]

\* UnknownReport with the status left at PASS
UnknownReportPass ==
    [error |-> "Unknown project type (no package.json or Cargo.toml)",
     status |-> "PASS"]

\* lines 174-177
UnknownReport ==
    [error |-> "Unknown project type (no package.json or Cargo.toml)",
     status |-> "FAIL"]

NewReport(type) ==
    [type |-> type, steps |-> <<>>, failures |-> <<>>, status |-> "PASS"]

StepName(command) ==
    CASE command = "npm run lint" -> "lint"
      [] command = "npm run test:unit" -> "test:unit"
      [] command = "npm run test:property" -> "test:property"
      [] command = "cargo check" -> "cargo check"
      [] command = "cargo test" -> "cargo test"
      [] command = "cargo bench" -> "cargo bench"
      [] command = "./regression_suite.sh" -> "regression_suite"

\* FailureReason with the unit-test branch copied from the lint branch
FailureReasonCopied(command) ==
    CASE command = "npm run lint" -> "Lint check failed"
      [] command = "npm run test:unit" -> "Lint check failed"
      [] command = "npm run test:property" -> "Property tests failed"
      [] command = "cargo check" -> "Compilation failed"
      [] command = "cargo test" -> "Compilation failed"
      [] command = "cargo bench" -> "Benchmarks failed"
      [] command = "./regression_suite.sh" -> "Regression suite failed"

FailureReason(command) ==
    CASE command = "npm run lint" -> "Lint check failed"
      [] command = "npm run test:unit" -> "Unit tests failed"
      [] command = "npm run test:property" -> "Property tests failed"
      [] command = "cargo check" -> "Compilation failed"
      [] command = "cargo test" -> "Tests failed"
      [] command = "cargo bench" -> "Benchmarks failed"
      [] command = "./regression_suite.sh" -> "Regression suite failed"

\* StepResult with the duration and the return code in each other's field
StepResultSwapped(command, d, res) ==
    [name |-> StepName(command), duration_ms |-> res.returncode, exit_code |-> d,
     stdout |-> Slice(res.stdout, MaxExcerpt), stderr |-> Slice(res.stderr, MaxExcerpt)]

\* the dict appended to report["steps"]
StepResult(command, d, res) ==
    [name |-> StepName(command), duration_ms |-> d, exit_code |-> res.returncode,
     stdout |-> Excerpt(res.stdout), stderr |-> Excerpt(res.stderr)]

\* RecordStep that appends the failure reason and leaves the status alone
RecordStepStatusKept(report, command, d, res) ==
    LET stepped == [report EXCEPT !.steps = Append(@, StepResult(command, d, res))]
    IN  IF res.returncode # 0
        THEN [stepped EXCEPT !.failures = Append(@, FailureReason(command))]
        ELSE stepped

\* RecordStep that puts the new StepResult at the head of the list
RecordStepPrepended(report, command, d, res) ==
    LET stepped == [report EXCEPT !.steps = <<StepResult(command, d, res)>> \o @]
    IN  IF res.returncode # 0
        THEN [stepped EXCEPT !.status = "FAIL",
                             !.failures = Append(@, FailureReason(command))]
        ELSE stepped

\* report["steps"].append(...), then on a non-zero return code
\* report["status"] = "FAIL" and report["failures"].append(reason)
RecordStep(report, command, d, res) ==
    LET stepped == [report EXCEPT !.steps = Append(@, StepResult(command, d, res))]
    IN  IF res.returncode # 0
        THEN [stepped EXCEPT !.status = "FAIL",
                             !.failures = Append(@, FailureReason(command))]
        ELSE stepped

\* lines 181-182: sys.exit(1) on FAIL, else main() returns (status 0)
ExitStatus(report) == IF report.status = "FAIL" THEN 1 ELSE 0

-----------------------------------------------------------------------------
(* Where each step hands over to, given the return code it recorded *)

\* AfterLint with an early abort on a failing lint
AfterLintAbort(returncode) == IF returncode # 0 THEN "emit" ELSE "node_unit"

\* AfterLint that in deep mode goes straight to the capability probe
AfterLintDeepSkips(returncode) == IF deep_mode THEN "node_probe" ELSE "node_unit"

AfterLint(returncode) == "node_unit"

\* AfterUnit that goes on to the capability probe whatever the flag
AfterUnitAlwaysProbe(returncode) == "node_probe"

AfterUnit(returncode) == IF deep_mode THEN "node_probe" ELSE "emit"

AfterProperty(returncode) == "emit"

\* AfterCargoCheck without the early return
AfterCargoCheckNoAbort(returncode) == "rust_test"

\* line 107: return report, "Abort if won't compile"
AfterCargoCheck(returncode) == IF returncode # 0 THEN "emit" ELSE "rust_test"

\* AfterCargoTest that returns the report when the tests fail
AfterCargoTestAbort(returncode) ==
    IF returncode # 0 THEN "emit" ELSE IF deep_mode THEN "rust_bench" ELSE "emit"

AfterCargoTest(returncode) == IF deep_mode THEN "rust_bench" ELSE "emit"

AfterBench(returncode) == "rust_regcheck"

AfterRegression(returncode) == "emit"

-----------------------------------------------------------------------------
(* The state of a freshly started process *)

FreshProcess ==
    /\ pc = "main"
    /\ result = NoReport
    /\ invocations = <<>>
    /\ fs_checks = <<>>
    /\ pkg_reads = 0
    /\ analyzers = <<>>
    /\ stdout_docs = <<>>
    /\ exit_code = NoExit
    /\ waiting = NoCommand
    /\ running = {}

\* The projects the tool is pointed at.  A path that does not exist holds
\* no files; package.json is "missing" exactly when the file is not there.
\* Only analyze_node_project reads package.json and only
\* analyze_rust_project looks for regression_suite.sh, so next to a
\* Cargo.toml one content of package.json stands for all, and the script
\* is placed in rust projects and in directories without a manifest.
Init ==
    /\ path_exists \in BOOLEAN
    /\ files \in SUBSET MarkerFiles
    /\ pkg_data \in Manifests
    /\ deep_mode \in BOOLEAN
    /\ ~path_exists => files = {}
    /\ (pkg_data.open = "missing") <=> ("package.json" \notin files)
    /\ ("Cargo.toml" \in files /\ "package.json" \in files) =>
           pkg_data.scripts.members = {"lint", "test:unit", "test:property"}
    /\ ("regression_suite.sh" \in files /\ "package.json" \in files) =>
           "Cargo.toml" \in files
    /\ tools = <<>>
    /\ run = 1
    /\ history = <<>>
    /\ FreshProcess

-----------------------------------------------------------------------------
(* main() *)

\* lines 163-167: the precondition on the service path
CheckPath ==
    /\ pc = "main"
    /\ IF ~path_exists
       THEN /\ stdout_docs' = Append(stdout_docs, PathNotFoundReport)
            /\ exit_code' = 1
            /\ pc' = "exited"
       ELSE /\ pc' = "detect"
            /\ UNCHANGED <<stdout_docs, exit_code>>
    /\ UNCHANGED <<env, tools, run, result, invocations, fs_checks, pkg_reads,
                   analyzers, history, waiting, running>>

\* lines 169-177: toolchain detection; entering an analyzer creates its
\* empty report (lines 20-25, 86-91)
DetectToolchain ==
    /\ pc = "detect"
    /\ fs_checks' = fs_checks \o DetectProbes(files)
    /\ LET kind == Detect(files) IN
       CASE kind = "rust" ->
              /\ analyzers' = Append(analyzers, "analyze_rust_project")
              /\ result' = NewReport("rust")
              /\ pc' = "rust_check"
         [] kind = "node" ->
              /\ analyzers' = Append(analyzers, "analyze_node_project")
              /\ result' = NewReport("node")
              /\ pc' = "node_lint"
         [] OTHER ->
              /\ result' = UnknownReport
              /\ pc' = "emit"
              /\ UNCHANGED analyzers
    /\ UNCHANGED <<env, tools, run, invocations, pkg_reads, stdout_docs,
                   exit_code, history, waiting, running>>

\* a child that is started and never waited for stays alive
ReapedNone(procs, command) == procs

\* subprocess.run starts the child process and blocks until it has
\* terminated: when the call returns or raises, the child is gone
Reaped(procs, command) == procs \ {command}

\* The call of run_command: the child process is started and main() blocks.
Call(command) ==
    /\ waiting = NoCommand
    /\ waiting' = command
    /\ running' = running \cup {command}
    /\ invocations' = Append(invocations, command)
    /\ UNCHANGED <<env, tools, run, pc, result, fs_checks, pkg_reads, analyzers,
                   stdout_docs, exit_code, history>>

\* One step of an analyzer, from the return of run_command on: either the
\* call raises out of run_command, the analyzer and main() (a traceback,
\* status 1, and nothing printed), or the step is recorded and the
\* analyzer goes on.
Step(command, o, d, next) ==
    /\ waiting = command
    /\ waiting' = NoCommand
    /\ running' = Reaped(running, command)
    /\ tools' = IF command \in DOMAIN tools THEN tools ELSE tools @@ (command :> o)
    /\ LET res == run_command(o) IN
       IF res.raised
       THEN /\ pc' = "crashed"
            /\ exit_code' = 1
            /\ UNCHANGED result
       ELSE /\ result' = RecordStep(result, command, d, res)
            /\ pc' = next
            /\ UNCHANGED exit_code
    /\ UNCHANGED <<env, run, invocations, fs_checks, pkg_reads, analyzers,
                   stdout_docs, history>>

-----------------------------------------------------------------------------
(* analyze_node_project *)

NodeLint ==
    /\ pc = "node_lint"
    /\ \/ Call("npm run lint")
       \/ \E o \in Behaviour("npm run lint"), d \in Durations :
            Step("npm run lint", o, d, AfterLint(Shell(o).returncode))

NodeUnit ==
    /\ pc = "node_unit"
    /\ \/ Call("npm run test:unit")
       \/ \E o \in Behaviour("npm run test:unit"), d \in Durations :
            Step("npm run test:unit", o, d, AfterUnit(Shell(o).returncode))

\* lines 57-68: the capability probe of deep mode
NodeProbe ==
    /\ pc = "node_probe"
    /\ pkg_reads' = pkg_reads + 1
    /\ pc' = IF HasPropTest(pkg_data) THEN "node_property" ELSE "emit"
    /\ UNCHANGED <<env, tools, run, result, invocations, fs_checks, analyzers,
                   stdout_docs, exit_code, history, waiting, running>>

NodeProperty ==
    /\ pc = "node_property"
    /\ \/ Call("npm run test:property")
       \/ \E o \in Behaviour("npm run test:property"), d \in Durations :
            Step("npm run test:property", o, d, AfterProperty(Shell(o).returncode))

-----------------------------------------------------------------------------
(* analyze_rust_project *)

RustCheck ==
    /\ pc = "rust_check"
    /\ \/ Call("cargo check")
       \/ \E o \in Behaviour("cargo check"), d \in Durations :
            Step("cargo check", o, d, AfterCargoCheck(Shell(o).returncode))

RustTest ==
    /\ pc = "rust_test"
    /\ \/ Call("cargo test")
       \/ \E o \in Behaviour("cargo test"), d \in Durations :
            Step("cargo test", o, d, AfterCargoTest(Shell(o).returncode))

RustBench ==
    /\ pc = "rust_bench"
    /\ \/ Call("cargo bench")
       \/ \E o \in Behaviour("cargo bench"), d \in Durations :
            Step("cargo bench", o, d, AfterBench(Shell(o).returncode))

\* lines 140-141: os.path.exists(regression_script)
RustRegressionCheck ==
    /\ pc = "rust_regcheck"
    /\ fs_checks' = Append(fs_checks, "regression_suite.sh")
    /\ pc' = IF "regression_suite.sh" \in files THEN "rust_regression" ELSE "emit"
    /\ UNCHANGED <<env, tools, run, result, invocations, pkg_reads, analyzers,
                   stdout_docs, exit_code, history, waiting, running>>

RustRegression ==
    /\ pc = "rust_regression"
    /\ \/ Call("./regression_suite.sh")
       \/ \E o \in Behaviour("./regression_suite.sh"), d \in Durations :
            Step("./regression_suite.sh", o, d, AfterRegression(Shell(o).returncode))

-----------------------------------------------------------------------------
(* main(), after the analyzer returned *)

\* lines 179-182: print the result, then exit by its status
Emit ==
    /\ pc = "emit"
    /\ stdout_docs' = Append(stdout_docs, result)
    /\ exit_code' = ExitStatus(result)
    /\ pc' = "exited"
    /\ UNCHANGED <<env, tools, run, result, invocations, fs_checks, pkg_reads,
                   analyzers, history, waiting, running>>

\* a step's duration_ms is the one field two runs may differ in
StripDurations(doc) ==
    IF "steps" \in DOMAIN doc
    THEN [doc EXCEPT !.steps = [i \in 1..Len(@) |-> [@[i] EXCEPT !.duration_ms = 0]]]
    ELSE doc

\* lines 184-185: the tool is invoked again, as a new process, on the same
\* project with the same tools, with the same flag or with --deep added
NextRun ==
    /\ pc \in {"exited", "crashed"}
    /\ run < NumRuns
    /\ run' = run + 1
    /\ history' = Append(history,
                         [docs |-> [i \in 1..Len(stdout_docs) |-> StripDurations(stdout_docs[i])],
                          exit_code |-> exit_code,
                          deep_mode |-> deep_mode])
    /\ pc' = "main"
    /\ result' = NoReport
    /\ invocations' = <<>>
    /\ fs_checks' = <<>>
    /\ pkg_reads' = 0
    /\ analyzers' = <<>>
    /\ stdout_docs' = <<>>
    /\ exit_code' = NoExit
    /\ waiting' = NoCommand
    /\ running' = {}
    /\ deep_mode' \in {deep_mode, TRUE}
    /\ UNCHANGED <<path_exists, files, pkg_data, tools>>

Next ==
    \/ CheckPath
    \/ DetectToolchain
    \/ NodeLint
    \/ NodeUnit
    \/ NodeProbe
    \/ NodeProperty
    \/ RustCheck
    \/ RustTest
    \/ RustBench
    \/ RustRegressionCheck
    \/ RustRegression
    \/ Emit
    \/ NextRun

Spec == Init /\ [][Next]_vars

-----------------------------------------------------------------------------
(* Vocabulary of the properties *)

IsPrefix(s, t) == Len(s) <= Len(t) /\ \A i \in 1..Len(s) : s[i] = t[i]

HasKey(doc, k) == k \in DOMAIN doc

RustRun == analyzers = <<"analyze_rust_project">>

NodeRun == analyzers = <<"analyze_node_project">>

\* the run is over: main() printed and exited, or an exception ended it
Terminated == pc \in {"exited", "crashed"}

\* every report state there is: the report under construction and
\* everything printed
ReportStates ==
    (IF result = NoReport THEN {} ELSE {result})
        \cup {stdout_docs[i] : i \in 1..Len(stdout_docs)}

\* what the i-th command of this run exited with and wrote
Captured(i) == Shell(tools[invocations[i]])

-----------------------------------------------------------------------------
-----------------------------------------------------------------------------
\* C2: in a node run the commands are invoked in the order lint, test:unit,
\* test:property; once lint is recorded, with whatever exit code, test:unit
\* is invoked next (no early abort); a printed report holds lint and
\* test:unit in that order, and holds exactly 2 steps with deep mode off,
\* 3 with deep mode on and the test:property script declared, else 2.
C2_PropertyDeclared ==
    /\ pkg_data.open = "ok" /\ pkg_data.json = "dict"
    /\ "test:property" \in pkg_data.scripts.members

-----------------------------------------------------------------------------
\* C3 as stated: in every report state (the report under construction and
\* every printed report, those for a missing path or an unknown toolchain
\* included) status is FAIL if and only if the failures list is non-empty;
\* a report without a failures list has no failure reason.
Failures(doc) == IF HasKey(doc, "failures") THEN doc.failures ELSE <<>>

C3_StatusIffFailures ==
    \A doc \in ReportStates : doc.status = "FAIL" <=> Failures(doc) # <<>>

\* C3 as amended: every report state is either an analyzer report, whose
\* status is FAIL if and only if its failures list is non-empty, or an
\* error report (missing path, unknown toolchain), which carries an error
\* message, no failures list and status FAIL.
C3_StatusIffFailuresOrError ==
    \A doc \in ReportStates :
        /\ HasKey(doc, "failures") \/ HasKey(doc, "error")
        /\ HasKey(doc, "failures") =>
               (doc.status = "FAIL" <=> doc.failures # <<>>) /\ ~HasKey(doc, "error")
        /\ HasKey(doc, "error") => doc.status = "FAIL" /\ ~HasKey(doc, "failures")
        /\ doc.status \in {"PASS", "FAIL"}

C3_Witness ==
    /\ pc = "rust_regression"
    /\ result.status = "FAIL" /\ Len(result.failures) = 1
    /\ Len(result.steps) = 3 /\ result.steps[3].exit_code # 0

-----------------------------------------------------------------------------
\* C4: a run that prints its report exits 1 when the report's status is
\* FAIL and 0 otherwise, and every run that ends exits 0 if and only if the
\* target path exists, a manifest was found and every command that was
\* executed exited with code 0.
C4_AllStepsExitedZero ==
    \A i \in 1..Len(invocations) :
        tools[invocations[i]].started /\ tools[invocations[i]].code = 0

C4_ExitStatus ==
    Terminated =>
        /\ exit_code \in {0, 1}
        /\ pc = "exited" =>
               exit_code = (IF stdout_docs[Len(stdout_docs)].status = "FAIL" THEN 1 ELSE 0)
        /\ exit_code = 0 <=>
               /\ path_exists
               /\ "Cargo.toml" \in files \/ "package.json" \in files
               /\ C4_AllStepsExitedZero

-----------------------------------------------------------------------------
\* C5: in an existing directory Cargo.toml selects the rust analyzer whether
\* or not package.json is there too, otherwise package.json selects the
\* node analyzer, otherwise the kind is unknown and the unknown-project
\* report is the result; at most one analyzer is ever entered in a run.
C5_DetectionPrecedence ==
    /\ Len(analyzers) <= 1
    /\ (path_exists /\ pc \notin {"main", "detect"}) =>
         /\ "Cargo.toml" \in files =>
                RustRun /\ result.type = "rust"
         /\ ("Cargo.toml" \notin files /\ "package.json" \in files) =>
                NodeRun /\ result.type = "node"
         /\ ("Cargo.toml" \notin files /\ "package.json" \notin files) =>
                analyzers = <<>> /\ result = UnknownReport
    /\ ~path_exists => analyzers = <<>>

C5_Witness ==
    /\ {"Cargo.toml", "package.json"} \subseteq files
    /\ pc = "exited" /\ RustRun
    /\ stdout_docs[1].type = "rust"

-----------------------------------------------------------------------------
\* C6: when the path does not exist, or the directory holds neither
\* Cargo.toml nor package.json, no command is ever run and no analyzer
\* entered; the run ends having printed exactly one document, with an
\* error field and status FAIL, and exit status 1; for a missing path no
\* marker file has been probed.
C6_PreconditionError == ~path_exists \/ ({"Cargo.toml", "package.json"} \cap files = {})

C6_PreconditionErrors ==
    C6_PreconditionError =>
        /\ invocations = <<>> /\ analyzers = <<>> /\ pkg_reads = 0
        /\ Len(stdout_docs) <= 1
        /\ pc # "crashed"
        /\ ~path_exists => fs_checks = <<>>
        /\ pc = "exited" =>
             /\ Len(stdout_docs) = 1
             /\ HasKey(stdout_docs[1], "error")
             /\ stdout_docs[1].status = "FAIL"
             /\ exit_code = 1
        /\ exit_code # NoExit => pc = "exited"

C6_Witness ==
    /\ path_exists /\ files = {"regression_suite.sh"} /\ deep_mode
    /\ pc = "exited" /\ exit_code = 1
    /\ stdout_docs = <<UnknownReport>>

-----------------------------------------------------------------------------
\* C7: a step whose command could not be started is recorded as a failed
\* step, and what is recorded for it (the StepResult and the failure
\* reason) differs from what is recorded for every command that started
\* and exited non-zero, so that the report identifies the startup problem.
C7_Recorded(type, command, d, o) ==
    RecordStep(NewReport(type), command, d, run_command(o))

C7_UnstartableIsDistinct ==
    HasKey(result, "steps") =>
        \A i \in 1..Len(result.steps) :
            LET command == invocations[i]
                d == result.steps[i].duration_ms
            IN  ~tools[command].started =>
                  /\ result.steps[i].exit_code # 0
                  /\ result.status = "FAIL"
                  /\ \A o \in Outcomes :
                        o.started =>
                            C7_Recorded(result.type, command, d, o)
                                # C7_Recorded(result.type, command, d, tools[command])

-----------------------------------------------------------------------------
\* C8: whatever an external command does (any exit code, any output), the
\* run never ends in a program-level error: every run that ends has printed
\* its report and exits with status 0 or 1 by that report.
C8_NoProgramLevelError ==
    /\ pc # "crashed"
    /\ exit_code # NoExit =>
           /\ Len(stdout_docs) = 1
           /\ exit_code = ExitStatus(stdout_docs[1])

-----------------------------------------------------------------------------
\* C9: for every recorded step of either analyzer, a captured stream longer
\* than 500 characters is stored as exactly its first 500 characters, and a
\* stream of 500 characters or fewer is stored as it is.
C9_Stored(full, stored) ==
    IF Len(full) > 500
    THEN Len(stored) = 500 /\ stored = SubSeq(full, 1, 500)
    ELSE stored = full

C9_Truncation ==
    HasKey(result, "steps") =>
        \A i \in 1..Len(result.steps) :
            /\ C9_Stored(Captured(i).stdout, result.steps[i].stdout)
            /\ C9_Stored(Captured(i).stderr, result.steps[i].stderr)

C9_Witness ==
    /\ RustRun /\ pc = "exited" /\ Len(result.steps) = 4
    /\ Len(Captured(2).stdout) > 500 /\ Len(result.steps[2].stdout) = 500
    /\ Len(Captured(2).stderr) = 500 /\ result.steps[2].stderr = Captured(2).stderr
    /\ Len(Captured(3).stderr) > 500 /\ Len(result.steps[3].stderr) = 500

-----------------------------------------------------------------------------
\* C10: when the tool is run again on the same project with the same deep
\* flag and the same behaviour of the external tools, the run prints the
\* same documents as every earlier run with that flag, duration_ms fields
\* aside, and ends with the same exit status.
C10_Idempotent ==
    Terminated =>
        \A k \in 1..Len(history) :
            history[k].deep_mode = deep_mode =>
                /\ history[k].docs =
                       [i \in 1..Len(stdout_docs) |-> StripDurations(stdout_docs[i])]
                /\ history[k].exit_code = exit_code

C10_Witness ==
    /\ run = 2 /\ pc = "exited" /\ Len(history) = 1
    /\ history[1].deep_mode = deep_mode
    /\ NodeRun /\ Len(result.steps) = 3
    /\ result.steps[1].duration_ms # 0
    /\ result.steps[2].exit_code # 0
    /\ stdout_docs[1] # history[1].docs[1]

---------------------------------------------------------------------------
\* The statement as the specification words it: when the target path does
\* not exist, the printed document has an error field and no other key,
\* and the exit status is 1.
C11_OnlyErrorField ==
    (~path_exists /\ pc = "exited") =>
        /\ Len(stdout_docs) = 1
        /\ DOMAIN stdout_docs[1] = {"error"}
        /\ exit_code = 1

\* C11: when the target path does not exist, the run prints one document
\* whose only keys are error and status, with status FAIL (no type, no
\* steps, no failures), invokes no analyzer and no command, and exits
\* with status 1.
C11_MissingPathReport ==
    (~path_exists /\ pc = "exited") =>
        /\ Len(stdout_docs) = 1
        /\ DOMAIN stdout_docs[1] = {"error", "status"}
        /\ stdout_docs[1].error = "Path not found"
        /\ stdout_docs[1].status = "FAIL"
        /\ analyzers = <<>> /\ invocations = <<>>
        /\ exit_code = 1

C11_Witness ==
    /\ ~path_exists /\ pc = "exited" /\ deep_mode
    /\ Len(stdout_docs) = 1 /\ HasKey(stdout_docs[1], "error")
    /\ exit_code = 1

-----------------------------------------------------------------------------
\* the canonical step list of each toolchain, by the names the reports use
C12_Canonical(type) ==
    IF type = "node"
    THEN <<"lint", "test:unit", "test:property">>
    ELSE <<"cargo check", "cargo test", "cargo bench", "regression_suite">>

C12_Names(doc) == [i \in 1..Len(doc.steps) |-> doc.steps[i].name]

\* C12: in every report state of an analyzer run (the report under
\* construction after each step, and the printed report) the names of the
\* StepResults, in order, are a prefix of the canonical step list of the
\* report's toolchain: no step out of order, none twice, and a step that
\* was not run has no entry at all (every entry carries the integer exit
\* code of a command that was invoked, one entry per command returned).
C12_StepsCanonicalPrefix ==
    \A doc \in ReportStates :
        HasKey(doc, "steps") =>
            /\ doc.type \in {"node", "rust"}
            /\ IsPrefix(C12_Names(doc), C12_Canonical(doc.type))
            /\ \A i \in 1..Len(doc.steps) :
                  /\ doc.steps[i].exit_code \in Int
                  /\ i <= Len(invocations)
                  /\ doc.steps[i].name = StepName(invocations[i])
            /\ Len(doc.steps) <= Len(invocations)
            /\ Len(invocations) <= Len(doc.steps) + 1

C12_Witness ==
    /\ RustRun /\ pc = "exited" /\ Len(stdout_docs) = 1
    /\ C12_Names(stdout_docs[1]) =
           <<"cargo check", "cargo test", "cargo bench", "regression_suite">>
    /\ stdout_docs[1].steps[2].exit_code # 0

-----------------------------------------------------------------------------
\* the fixed reason of each step, by the step's name in the report
C13_ReasonOf(name) ==
    CASE name = "lint" -> "Lint check failed"
      [] name = "test:unit" -> "Unit tests failed"
      [] name = "test:property" -> "Property tests failed"
      [] name = "cargo check" -> "Compilation failed"
      [] name = "cargo test" -> "Tests failed"
      [] name = "cargo bench" -> "Benchmarks failed"
      [] name = "regression_suite" -> "Regression suite failed"

\* the reasons of the steps that exited non-zero, in step order
C13_Expected(steps) ==
    LET failing == SelectSeq(steps, LAMBDA s : s.exit_code # 0)
    IN  [i \in 1..Len(failing) |-> C13_ReasonOf(failing[i].name)]

\* C13: in the report an analyzer run prints, and in every state of the
\* report on the way there, the failures list is exactly the fixed reasons
\* of the recorded steps whose exit code is non-zero, one for each such
\* step, none for a step that exited 0, in step order.
C13_FailuresMatchSteps ==
    \A doc \in ReportStates :
        HasKey(doc, "steps") => doc.failures = C13_Expected(doc.steps)

C13_Witness ==
    /\ NodeRun /\ pc = "exited" /\ Len(stdout_docs) = 1
    /\ Len(stdout_docs[1].steps) = 3
    /\ stdout_docs[1].steps[1].exit_code = 0
    /\ stdout_docs[1].steps[2].exit_code # 0
    /\ stdout_docs[1].steps[3].exit_code # 0
    /\ stdout_docs[1].failures = <<"Unit tests failed", "Property tests failed">>

-----------------------------------------------------------------------------
\* the commands of a rust run whose cargo check exited 0
C14_Commands ==
    <<"cargo check", "cargo test">>
        \o (IF deep_mode THEN <<"cargo bench">> ELSE <<>>)
        \o (IF deep_mode /\ "regression_suite.sh" \in files
            THEN <<"./regression_suite.sh">> ELSE <<>>)

C14_WitnessNoScript ==
    /\ RustRun /\ deep_mode /\ "regression_suite.sh" \notin files
    /\ pc = "exited" /\ Len(result.steps) = 3
    /\ result.steps[2].exit_code # 0

-----------------------------------------------------------------------------
\* the commands of the deep tier
C15_DeepCommands == {"npm run test:property", "cargo bench", "./regression_suite.sh"}

C15_Invoked(command) == \E i \in 1..Len(invocations) : invocations[i] = command

C15_WitnessAbsent ==
    /\ NodeRun /\ deep_mode /\ pc = "exited" /\ pkg_reads = 1
    /\ pkg_data.scripts.kind = "dict" /\ ~C2_PropertyDeclared
    /\ Len(result.steps) = 2

-----------------------------------------------------------------------------
\* package.json cannot be opened, is not JSON, or is JSON of another shape
\* than an object whose scripts, if any, is a table
C16_Malformed ==
    \/ pkg_data.open # "ok"
    \/ pkg_data.json # "dict"
    \/ pkg_data.scripts.kind \notin {"absent", "dict"}

\* C16: the capability probe fails closed: in a deep node run whose
\* package.json is absent, unreadable or malformed, the test:property
\* command is never invoked, the report has the two baseline steps and no
\* property-test failure reason, and the status is decided by lint and
\* test:unit alone.
C16_ProbeFailsClosed ==
    (NodeRun /\ deep_mode /\ C16_Malformed) =>
        /\ ~C15_Invoked("npm run test:property")
        /\ pc \in {"emit", "exited"} =>
              /\ Len(result.steps) = 2
              /\ \A i \in 1..Len(result.failures) :
                    result.failures[i] # "Property tests failed"
              /\ result.status = "FAIL" <=>
                    \/ result.steps[1].exit_code # 0
                    \/ result.steps[2].exit_code # 0

-----------------------------------------------------------------------------
\* C17: every run that terminates has written exactly one report to
\* stdout, on pass and on fail alike, and nothing is written while a step
\* is still to run or running: a report on stdout means the analyzer is
\* done, no command is pending and no child process is alive.
C17_ExactlyOneReport ==
    /\ Terminated => Len(stdout_docs) = 1
    /\ Len(stdout_docs) <= 1
    /\ stdout_docs # <<>> =>
          /\ pc = "exited"
          /\ waiting = NoCommand /\ running = {}
          /\ result # NoReport => stdout_docs = <<result>>

-----------------------------------------------------------------------------
\* C18: no command is invoked twice in a run, a node run invokes at most
\* 3 commands and a rust run at most 4, and a run whose commands have all
\* terminated ends with a report emitted and an exit status.
C18_NoRetryFinite ==
    /\ \A i, j \in 1..Len(invocations) : i # j => invocations[i] # invocations[j]
    /\ NodeRun => Len(invocations) <= 3
    /\ RustRun => Len(invocations) <= 4
    /\ Terminated =>
          /\ Len(stdout_docs) = 1
          /\ exit_code \in {0, 1}

-----------------------------------------------------------------------------
\* C19: execution is strictly sequential: at most one child process is
\* alive at any time, it is the one main() is blocked on, and it was
\* started only after every earlier command of the run had terminated and
\* had its StepResult and failure reason recorded; between two steps no
\* child is alive and every command invoked so far is in the report.
C19_Sequential ==
    /\ Cardinality(running) <= 1
    /\ waiting = NoCommand => running = {}
    /\ waiting # NoCommand =>
          /\ running = {waiting}
          /\ invocations # <<>> /\ invocations[Len(invocations)] = waiting
          /\ Len(result.steps) = Len(invocations) - 1
          /\ \A i \in 1..Len(result.steps) :
                result.steps[i].name = StepName(invocations[i])
          /\ result.failures = C13_Expected(result.steps)
    /\ (waiting = NoCommand /\ pc # "crashed" /\ invocations # <<>>) =>
          Len(result.steps) = Len(invocations)

\* the third command of a rust run is running, the two before it are in
\* the report, the second with its failure
C19_Witness ==
    /\ waiting = "cargo bench" /\ running = {"cargo bench"}
    /\ Len(invocations) = 3 /\ Len(result.steps) = 2
    /\ result.steps[2].exit_code # 0
    /\ result.failures = <<"Tests failed">>

-----------------------------------------------------------------------------
\* what a deep run printed against what a run of the same project with
\* the same tools printed without the flag (durations aside)
C20_Extends(plain, deep) ==
    IF HasKey(plain, "steps")
    THEN /\ HasKey(deep, "steps")
         /\ plain.type = deep.type
         /\ IsPrefix(plain.steps, deep.steps)
         /\ IsPrefix(plain.failures, deep.failures)
         /\ plain.status = "FAIL" => deep.status = "FAIL"
         /\ deep.status = "PASS" => plain.status = "PASS"
    ELSE plain = deep

C20_WitnessNode ==
    /\ run = 2 /\ pc = "exited" /\ deep_mode /\ ~history[1].deep_mode
    /\ NodeRun /\ Len(history[1].docs) = 1
    /\ history[1].docs[1].failures = <<"Lint check failed">>
    /\ result.failures = <<"Lint check failed", "Property tests failed">>

====
